---- MODULE Spec2Model ----
(***************************************************************************)
(* Model of timezones/fields.py (django-timezones): TimeZoneField and      *)
(* LocalizedDateTimeField with the per-instance property installed by      *)
(* prep_localized_datetime.                                                 *)
(*                                                                         *)
(* Time is counted in whole hours on a short calendar.  A datetime is a    *)
(* record: kind "none" (Python None), "naive" (wall reading only) or       *)
(* "aware" (wall reading, utc offset of the attached tzinfo, zone name).   *)
(* The point in time of an aware datetime is wall - off.                   *)
(***************************************************************************)
EXTENDS Integers, Sequences, FiniteSets, TLC

VARIABLES default_tz, MAX_TIMEZONE_LENGTH, tz_arg, field_tz, env, attr, last, hist, pc, db

vars ==
    <<default_tz, MAX_TIMEZONE_LENGTH, tz_arg, field_tz, env, attr, last, hist, pc, db>>

(* ---------------- bounds of the model ---------------- *)

\* instants (hours, UTC) that inputs are drawn from: 0..MaxT
MaxT == 5

\* settings.MAX_TIMEZONE_LENGTH when the setting is absent
DefaultMaxLength == 100

\* lengths tried for the MAX_TIMEZONE_LENGTH setting and the max_length
\* keyword: 0..MaxLenArg
MaxLenArg == 18

(* ---------------- the zone database (pytz) ---------------- *)

\* three zones of the database: no offset, a fixed offset, and one with
\* daylight saving time (std/dst offsets, DST in force for the UTC instants
\* from..till-1 of the short calendar).
ZoneInfo ==
    ("UTC" :> [std |-> 0, dst |-> 0, from |-> 0, till |-> 0])
    @@ ("Asia/Tokyo" :> [std |-> 9, dst |-> 9, from |-> 0, till |-> 0])
    @@ ("America/New_York" :>
            [std |-> (0 - 5), dst |-> (0 - 4), from |-> 2, till |-> 4])

\* pytz.all_timezones_set
all_timezones_set == DOMAIN ZoneInfo

\* is DST in force in zone z at UTC instant u
InDst(z, u) == ZoneInfo[z].from <= u /\ u < ZoneInfo[z].till

\* tzinfo.utcoffset of zone z at the UTC instant u
OffsetAt(z, u) == IF InDst(z, u) THEN ZoneInfo[z].dst ELSE ZoneInfo[z].std

(* ---------------- datetime values ---------------- *)

None == [kind |-> "none", wall |-> 0, off |-> 0, zone |-> "-"]
Naive(w) == [kind |-> "naive", wall |-> w, off |-> 0, zone |-> "-"]
Aware(w, o, z) == [kind |-> "aware", wall |-> w, off |-> o, zone |-> z]

\* the point in time (UTC hour) of an aware datetime
UtcOf(dt) == dt.wall - dt.off

\* tz.fromutc: the normalised aware datetime of zone z at UTC instant u
FromUtc(z, u) == Aware(u + OffsetAt(z, u), OffsetAt(z, u), z)

\* the UTC instants whose reading in zone z is the wall reading w
Candidates(z, w) ==
    {u \in {w - ZoneInfo[z].std, w - ZoneInfo[z].dst} : u + OffsetAt(z, u) = w}

\* tz.localize(dt) with the default is_dst=False: the only reading when there
\* is one, the standard-time one of two (end of DST), and the wall reading
\* with the standard offset when there is none (start of DST).
localize(z, dt) ==
    LET c == Candidates(z, dt.wall)
        s == {u \in c : ~InDst(z, u)}
    IN  IF Cardinality(c) = 1
        THEN LET u == CHOOSE x \in c : TRUE IN Aware(dt.wall, OffsetAt(z, u), z)
        ELSE IF c = {}
        THEN Aware(dt.wall, ZoneInfo[z].std, z)
        ELSE LET u == CHOOSE x \in s : TRUE IN Aware(dt.wall, OffsetAt(z, u), z)

\* dt.astimezone(z) of an aware datetime
astimezone(dt, z) == FromUtc(z, UtcOf(dt))

\* dt.replace(tzinfo=None)
replace_tzinfo_none(dt) == Naive(dt.wall)

\* the datetimes the operations are given: None, naive readings, and aware
\* datetimes of every zone at the instants 0..MaxT
NaiveInputs == {Naive(w) : w \in (0 - 5)..MaxT}
AwareInputs == {FromUtc(z, u) : z \in all_timezones_set, u \in 0..MaxT}
DateTimes == NaiveInputs \cup AwareInputs
Values == {None} \cup DateTimes

\* a few of them, for the specifications that follow an instance over
\* several assignments and reads
FewValues ==
    {None, Naive(0), Naive(MaxT)}
        \cup {FromUtc(z, MaxT - 1) : z \in all_timezones_set}

(* ---------------- zone-valued arguments ---------------- *)

\* what the timezone argument, a callable's return value or a sibling column
\* can be: a string, a zone object, a callable, None
Str(n) == [kind |-> "str", name |-> n]
ZoneObj(n) == [kind |-> "zone", name |-> n]
Callable == [kind |-> "callable", name |-> "-"]
NoTz == [kind |-> "none", name |-> "-"]

(* ---------------- the persistence adapter ---------------- *)

\* connection: absent, one that takes aware values, one that raises
\* ValueError on aware values (MySQL), one that raises ValueError on all
Connections == {"absent", "accepts", "rejects_aware", "rejects_all"}

\* connection.ops.value_to_db_datetime(value) raises ValueError
value_to_db_datetime_raises(connection, value) ==
    \/ connection = "rejects_all"
    \/ connection = "rejects_aware" /\ value.kind = "aware"

(* ---------------- LocalizedDateTimeField.get_db_prep_save ---------------- *)

\* to_default without the conversion of aware values
to_default_keeps_zone(dtz, value) ==
    IF value.kind = "none" THEN value
    ELSE IF value.kind = "naive" THEN localize(dtz, value)
    ELSE value

\* lines 91-95: convert to settings.TIME_ZONE
to_default(dtz, value) ==
    IF value.kind = "none" THEN value
    ELSE IF value.kind = "naive" THEN localize(dtz, value)
    ELSE astimezone(value, dtz)

\* the result of get_db_prep_save: the exception that reaches the caller,
\* the value passed on to the base class, and the values the adapter was
\* handed, in order
SaveResult(e, v, h) == [exc |-> e, stored |-> v, handed |-> h]

\* get_db_prep_save without the except clause around the probe
get_db_prep_save_no_except(dtz, value, connection) ==
    LET v1 == to_default(dtz, value)
    IN  IF connection = "absent"
        THEN SaveResult("none", v1, <<>>)
        ELSE IF value_to_db_datetime_raises(connection, v1)
        THEN SaveResult("ValueError", v1, <<v1>>)
        ELSE SaveResult("none", v1, <<v1, v1>>)

\* get_db_prep_save: conversion, the probe inside try/except ValueError, the
\* strip, and the base class's get_db_prep_save, which hands the value to
\* the connection's value_to_db_datetime (to nothing when there is none)
get_db_prep_save(dtz, value, connection) ==
    LET v1 == to_default(dtz, value)
        probed == connection # "absent"
        rejected == probed /\ value_to_db_datetime_raises(connection, v1)
    IN  IF rejected /\ v1.kind = "none"
        THEN \* None.replace(...)
             SaveResult("AttributeError", None, <<v1>>)
        ELSE LET v2 == IF rejected THEN replace_tzinfo_none(v1) ELSE v1
                 h1 == IF probed THEN <<v1>> ELSE <<>>
             IN  IF connection = "absent"
                 THEN SaveResult("none", v2, h1)
                 ELSE IF value_to_db_datetime_raises(connection, v2)
                 THEN SaveResult("ValueError", v2, Append(h1, v2))
                 ELSE SaveResult("none", v2, Append(h1, v2))

\* get_db_prep_lookup: None has no tzinfo attribute; no capability probe
get_db_prep_lookup(dtz, value) ==
    IF value.kind = "none"
    THEN [exc |-> "AttributeError", prepared |-> None]
    ELSE [exc |-> "none", prepared |-> to_default(dtz, value)]

(* ---------------- specification of the save path ---------------- *)

Idle == [op |-> "init"]

InitSave ==
    /\ default_tz \in all_timezones_set
    /\ MAX_TIMEZONE_LENGTH = DefaultMaxLength
    /\ tz_arg = NoTz
    /\ field_tz = NoTz
    /\ env = NoTz
    /\ attr = None
    /\ last = Idle
    /\ hist = Idle
    /\ pc = "-"
    /\ db = None

Save ==
    \E value \in Values, connection \in Connections :
        /\ last' = [op |-> "save", value |-> value, connection |-> connection,
                    res |-> get_db_prep_save(default_tz, value, connection)]
        /\ UNCHANGED <<default_tz, MAX_TIMEZONE_LENGTH, tz_arg, field_tz, env, attr, hist, pc, db>>

Lookup ==
    \E value \in Values :
        /\ last' = [op |-> "lookup", value |-> value,
                    res |-> get_db_prep_lookup(default_tz, value)]
        /\ UNCHANGED <<default_tz, MAX_TIMEZONE_LENGTH, tz_arg, field_tz, env, attr, hist, pc, db>>

NextSave == Save \/ Lookup

SpecSave == InitSave /\ [][NextSave]_vars

\* the reading of zone z at the UTC instant u
ReadingIn(z, u) == u + OffsetAt(z, u)

\* C1: a non-null value given to get_db_prep_save is passed on either as an
\* aware datetime of the default zone denoting the same point in time, or
\* (only when the adapter refused the aware value) as a naive datetime whose
\* reading is the default-zone reading of that point in time; a naive input
\* is itself a default-zone reading and keeps its reading.
C1_StoredInDefaultZone ==
    (last.op = "save" /\ last.value.kind # "none") =>
        LET v == last.value
            s == last.res.stored
            sameTime == IF v.kind = "naive" THEN s.wall = v.wall
                        ELSE s.wall = ReadingIn(default_tz, UtcOf(v))
        IN  \/ /\ s.kind = "aware"
               /\ s.zone = default_tz
               /\ sameTime
               /\ v.kind = "aware" => UtcOf(s) = UtcOf(v)
            \/ /\ s.kind = "naive"
               /\ last.connection \in {"rejects_aware", "rejects_all"}
               /\ sameTime

C1_Witness ==
    /\ last.op = "save"
    /\ last.value.kind = "aware"
    /\ last.value.zone # default_tz
    /\ last.value.off # OffsetAt(default_tz, UtcOf(last.value))
    /\ last.connection = "rejects_aware"
    /\ last.res.stored.kind = "naive"

\* the adapter's probe refused the converted value of the last save
ProbeRejected ==
    /\ last.op = "save"
    /\ last.connection # "absent"
    /\ Len(last.res.handed) >= 1
    /\ value_to_db_datetime_raises(last.connection, last.res.handed[1])

\* C8 as stated: whenever the probe refuses the value, null included, the
\* refusal stays inside: the adapter is handed a second, zone-less value and
\* the caller sees an exception only if that second value is refused.
C8_Original ==
    ProbeRejected =>
        /\ Len(last.res.handed) = 2
        /\ last.res.handed[2].kind # "aware"
        /\ last.res.exc \in {"none", "ValueError"}
        /\ (last.res.exc = "ValueError") <=>
               value_to_db_datetime_raises(last.connection, last.res.handed[2])

\* C8 amended: for every non-null value whose aware form the probe refuses,
\* the adapter is handed exactly two values, the aware default-zone datetime
\* and then its naive reading, the naive reading is what is passed on, and
\* the caller sees ValueError exactly when the naive reading is refused too.
C8_StripAndRetryNonNull ==
    (ProbeRejected /\ last.value.kind # "none") =>
        /\ Len(last.res.handed) = 2
        /\ last.res.handed[1].kind = "aware"
        /\ last.res.handed[1].zone = default_tz
        /\ last.res.handed[2] = Naive(last.res.handed[1].wall)
        /\ last.res.stored = last.res.handed[2]
        /\ last.res.exc \in {"none", "ValueError"}
        /\ (last.res.exc = "ValueError") <=> (last.connection = "rejects_all")

C8_Witness ==
    /\ ProbeRejected
    /\ last.value.kind # "none"
    /\ last.connection = "rejects_aware"
    /\ last.res.exc = "none"
    /\ last.res.stored.kind = "naive"

(* ---------------- LocalizedDateTimeField.__init__ ---------------- *)

\* a string that names no zone, and the name of the record's sibling column
UnknownName == "Nowhere"
SiblingField == "tz_column"

\* __init__ without the lookup of the name
FieldInit_keeps_name(timezone) == timezone

\* __init__: a string naming a known zone becomes the zone object, anything
\* else (other strings, callables, zone objects, None) is kept as given
FieldInit(timezone) ==
    IF timezone.kind = "str" /\ timezone.name \in all_timezones_set
    THEN ZoneObj(timezone.name)
    ELSE timezone

TimezoneArgs ==
    {Str(n) : n \in all_timezones_set \cup {SiblingField}}
        \cup {ZoneObj(n) : n \in all_timezones_set}
        \cup {Callable, NoTz}

(* ---------------- the property of prep_localized_datetime ---------------- *)

\* the private attribute before any assignment
Unset == [kind |-> "unset", wall |-> 0, off |-> 0, zone |-> "-"]

\* what the callable does when called / what the sibling column holds
Raises == [kind |-> "raises", name |-> "-"]
Missing == [kind |-> "missing", name |-> "-"]
CallableOutcomes ==
    {Str(n) : n \in all_timezones_set \cup {UnknownName}}
        \cup {ZoneObj(n) : n \in all_timezones_set}
        \cup {NoTz, Raises}
SiblingOutcomes ==
    {Str(n) : n \in all_timezones_set \cup {UnknownName}} \cup {NoTz, Missing}

\* the environments a field definition can meet
EnvsOf(ftz) ==
    IF ftz.kind = "callable" THEN CallableOutcomes
    ELSE IF ftz.kind = "str" THEN SiblingOutcomes
    ELSE {NoTz}

\* pytz.timezone(name) inside try/except: the zone, or default_tz on failure
timezone_or_default(dtz, name) ==
    IF name \in all_timezones_set THEN ZoneObj(name) ELSE ZoneObj(dtz)

\* set_dtz_field that falls back to the default zone whenever the callable
\* returns something other than a string
set_dtz_field_strings_only(dtz, ftz, e, a, dt) ==
    IF dt.kind = "none" THEN [exc |-> "none", attr |-> None]
    ELSE
    LET d1 == IF dt.kind = "naive" THEN localize(dtz, dt) ELSE dt
    IN  IF ftz.kind = "str"
        THEN [exc |-> "NameError", attr |-> a]
        ELSE IF ftz.kind = "callable"
        THEN IF e.kind = "raises"
             THEN [exc |-> "CallableError", attr |-> a]
             ELSE LET tz1 == IF e.kind = "str"
                             THEN timezone_or_default(dtz, e.name)
                             ELSE ZoneObj(dtz)
                  IN  [exc |-> "none", attr |-> astimezone(d1, tz1.name)]
        ELSE [exc |-> "none", attr |-> astimezone(d1, ftz.name)]

\* set_dtz_field: the exception that reaches the caller and the private
\* attribute afterwards (a is the attribute before, e the environment)
set_dtz_field(dtz, ftz, e, a, dt) ==
    IF dt.kind = "none" THEN [exc |-> "none", attr |-> None]
    ELSE
    LET d1 == IF dt.kind = "naive" THEN localize(dtz, dt) ELSE dt
    IN  IF ftz.kind = "str"
        THEN \* model_instance is not a name of any enclosing scope
             [exc |-> "NameError", attr |-> a]
        ELSE IF ftz.kind = "callable"
        THEN IF e.kind = "raises"
             THEN \* time_zone() is called outside the try
                  [exc |-> "CallableError", attr |-> a]
             ELSE LET tz1 == IF e.kind = "str"
                             THEN timezone_or_default(dtz, e.name)
                             ELSE e
                      tz2 == IF tz1.kind = "none" THEN ZoneObj(dtz) ELSE tz1
                  IN  [exc |-> "none", attr |-> astimezone(d1, tz2.name)]
        ELSE [exc |-> "none", attr |-> astimezone(d1, ftz.name)]

\* get_dtz_field that converts to the currently resolved zone on each read
get_dtz_field_resolves(a) ==
    IF a.kind = "unset"
    THEN [exc |-> "AttributeError", res |-> None]
    ELSE [exc |-> "none",
          res |-> set_dtz_field(default_tz, field_tz, env, a, a).attr]

\* get_dtz_field: getattr without a default
get_dtz_field(a) ==
    IF a.kind = "unset"
    THEN [exc |-> "AttributeError", res |-> None]
    ELSE [exc |-> "none", res |-> a]

\* prep_localized_datetime installs the property unless field.timezone is None
Installed(ftz) == ftz.kind # "none"

\* assignment to / read of the field's attribute on an instance
Assign(dtz, ftz, e, a, dt) ==
    IF Installed(ftz) THEN set_dtz_field(dtz, ftz, e, a, dt)
    ELSE [exc |-> "none", attr |-> dt]

Read(ftz, a) ==
    IF Installed(ftz) THEN get_dtz_field(a)
    ELSE [exc |-> "none", res |-> a]

(* ---------------- specification of the field's property ---------------- *)

Op(o, v, e, x, r) == [op |-> o, value |-> v, env |-> e, exc |-> x, res |-> r]

NoHist == [setIn |-> Unset, setEnv |-> NoTz]

Init ==
    /\ default_tz \in all_timezones_set
    /\ MAX_TIMEZONE_LENGTH = DefaultMaxLength
    /\ tz_arg \in TimezoneArgs
    /\ field_tz = FieldInit(tz_arg)
    /\ env \in EnvsOf(field_tz)
    /\ attr = Unset
    /\ last = Op("init", None, NoTz, "none", None)
    /\ hist = NoHist
    /\ pc = "-"
    /\ db = None

\* instance.field = dt (by the caller, or by the model's constructor)
SetField ==
    \E dt \in Values :
        LET r == Assign(default_tz, field_tz, env, attr, dt)
        IN  /\ attr' = r.attr
            /\ last' = Op("set", dt, env, r.exc, r.attr)
            /\ hist' = IF r.exc = "none"
                       THEN [setIn |-> dt, setEnv |-> env]
                       ELSE hist
            /\ UNCHANGED <<default_tz, MAX_TIMEZONE_LENGTH, tz_arg, field_tz, env, pc, db>>

\* instance.field
GetField ==
    LET r == Read(field_tz, attr)
    IN  /\ last' = Op("get", None, env, r.exc, r.res)
        /\ UNCHANGED <<default_tz, MAX_TIMEZONE_LENGTH, tz_arg, field_tz, env, attr, hist, pc, db>>

\* the callable starts to behave differently / the sibling column is updated
EnvChange ==
    \E e \in EnvsOf(field_tz) :
        /\ e # env
        /\ env' = e
        /\ last' = Op("env", None, e, "none", None)
        /\ UNCHANGED <<default_tz, MAX_TIMEZONE_LENGTH, tz_arg, field_tz, attr, hist, pc, db>>

Next == SetField \/ GetField \/ EnvChange

Spec == Init /\ [][Next]_vars

\* the kinds of policy a timezone argument stands for
IsStatic(t) ==
    \/ t.kind = "zone"
    \/ t.kind = "str" /\ t.name \in all_timezones_set
IsDynamic(t) == t.kind = "callable"
IsRelational(t) == t.kind = "str" /\ t.name \notin all_timezones_set

\* the zone a policy is expected to resolve to in environment e
ExpectedZone(t, e) ==
    IF IsStatic(t) THEN t.name
    ELSE IF e.kind \in {"str", "zone"} /\ e.name \in all_timezones_set
    THEN e.name
    ELSE default_tz

\* the last step was an assignment of a datetime to the field
AssignedDateTime == last.op = "set" /\ last.value.kind # "none"

\* C2: an assignment under a Dynamic policy always completes, and when the
\* callable raises, returns an unknown name or returns None the value is
\* converted to the default zone.
C2_DynamicNeverRaises ==
    (AssignedDateTime /\ IsDynamic(tz_arg)) =>
        /\ last.exc = "none"
        /\ last.res.kind = "aware"
        /\ last.res.zone = ExpectedZone(tz_arg, last.env)

\* C5: an assignment under a Relational policy completes and converts to the
\* zone named by the sibling column of the record, or to the default zone
\* when the record is missing, the column is null or the name is unknown.
C5_RelationalResolves ==
    (AssignedDateTime /\ IsRelational(tz_arg)) =>
        /\ last.exc = "none"
        /\ last.res.kind = "aware"
        /\ last.res.zone = ExpectedZone(tz_arg, last.env)

\* C4: under a Static policy Z (a known name or a zone object) every
\* assignment of a datetime completes, and a read then returns the assigned
\* instant, read as a default-zone wall clock when naive, expressed in Z.
\* On the short calendar the reading 3 of zone UTC is -1 at offset -4 in
\* America/New_York (as 10:00 UTC is 06:00-04:00).
C4_StaticReadsInZone ==
    /\ (AssignedDateTime /\ IsStatic(tz_arg)) => last.exc = "none"
    /\ (last.op = "get" /\ IsStatic(tz_arg) /\ hist.setIn.kind \in {"naive", "aware"}) =>
        LET s == hist.setIn
            r == last.res
            Z == tz_arg.name
            c == Candidates(default_tz, s.wall)
        IN  /\ last.exc = "none"
            /\ r.kind = "aware"
            /\ r.zone = Z
            /\ r.off = OffsetAt(Z, UtcOf(r))
            /\ r.wall = ReadingIn(Z, UtcOf(r))
            /\ s.kind = "aware" => UtcOf(r) = UtcOf(s)
            /\ (s.kind = "naive" /\ c # {}) => UtcOf(r) \in c
            /\ (s.kind = "naive" /\ Cardinality(c) = 2) => ~InDst(default_tz, UtcOf(r))
            /\ (s.kind = "naive" /\ c = {}) => UtcOf(r) = s.wall - ZoneInfo[default_tz].std
            /\ (default_tz = "UTC" /\ Z = "America/New_York" /\ s = Naive(3)) =>
                   r = Aware(0 - 1, 0 - 4, "America/New_York")

C4_Witness ==
    /\ last.op = "get"
    /\ default_tz = "UTC"
    /\ tz_arg = Str("America/New_York")
    /\ hist.setIn = Naive(3)
    /\ last.res = Aware(0 - 1, 0 - 4, "America/New_York")

(* ---------------- save, load and read of one value ---------------- *)

StaticArgs == {t \in TimezoneArgs : IsStatic(t)}

InitRound ==
    /\ default_tz \in all_timezones_set
    /\ MAX_TIMEZONE_LENGTH = DefaultMaxLength
    /\ tz_arg \in StaticArgs
    /\ field_tz = FieldInit(tz_arg)
    /\ env = NoTz
    /\ attr = Unset
    /\ last = Op("init", None, NoTz, "none", None)
    /\ hist = [t |-> None, connection |-> "absent"]
    /\ pc = "new"
    /\ db = None

\* the record is saved: the value goes through get_db_prep_save to the row
RoundSave ==
    /\ pc = "new"
    /\ \E t \in DateTimes, connection \in Connections :
        LET r == get_db_prep_save(default_tz, t, connection)
        IN  /\ hist' = [t |-> t, connection |-> connection]
            /\ last' = Op("save", t, env, r.exc, r.stored)
            /\ db' = IF r.exc = "none" THEN r.stored ELSE db
            /\ pc' = IF r.exc = "none" THEN "saved" ELSE "failed"
    /\ UNCHANGED <<default_tz, MAX_TIMEZONE_LENGTH, tz_arg, field_tz, env, attr>>

\* the row is loaded into a new instance: the stored value is assigned
RoundLoad ==
    /\ pc = "saved"
    /\ LET r == Assign(default_tz, field_tz, env, attr, db)
       IN  /\ attr' = r.attr
           /\ last' = Op("set", db, env, r.exc, r.attr)
           /\ pc' = IF r.exc = "none" THEN "loaded" ELSE "failed"
    /\ UNCHANGED <<default_tz, MAX_TIMEZONE_LENGTH, tz_arg, field_tz, env, hist, db>>

RoundRead ==
    /\ pc = "loaded"
    /\ LET r == Read(field_tz, attr)
       IN  /\ last' = Op("get", None, env, r.exc, r.res)
           /\ pc' = "read"
    /\ UNCHANGED <<default_tz, MAX_TIMEZONE_LENGTH, tz_arg, field_tz, env, attr, hist, db>>

NextRound == RoundSave \/ RoundLoad \/ RoundRead

SpecRound == InitRound /\ [][NextRound]_vars

\* the point in time a datetime denotes, a naive one being a default-zone
\* wall-clock reading
PointInTime(dt) ==
    IF dt.kind = "aware" THEN UtcOf(dt) ELSE UtcOf(localize(default_tz, dt))

\* C3: a value saved through get_db_prep_save, loaded and read back under a
\* Static policy denotes the point in time it denoted before, also when the
\* adapter refused the aware value and the zone was stripped.
C3_RoundTrip ==
    pc = "read" =>
        /\ last.exc = "none"
        /\ last.res.kind = "aware"
        /\ UtcOf(last.res) = PointInTime(hist.t)

(* ---------------- resolution and reads over time ---------------- *)

NoRead == [kind |-> "noread", name |-> "-"]

InitResolve ==
    /\ default_tz \in all_timezones_set
    /\ MAX_TIMEZONE_LENGTH = DefaultMaxLength
    /\ tz_arg \in TimezoneArgs
    /\ field_tz = FieldInit(tz_arg)
    /\ env \in EnvsOf(field_tz)
    /\ attr = Unset
    /\ last = Op("init", None, NoTz, "none", None)
    /\ hist = [setEnv |-> NoRead, readEnv |-> NoRead]
    /\ pc = "-"
    /\ db = None

ResolveSet ==
    \E dt \in FewValues :
        LET r == Assign(default_tz, field_tz, env, attr, dt)
        IN  /\ attr' = r.attr
            /\ last' = Op("set", None, env, r.exc, r.attr)
            /\ hist' = IF r.exc = "none"
                       THEN [setEnv |-> env, readEnv |-> NoRead]
                       ELSE hist
            /\ UNCHANGED <<default_tz, MAX_TIMEZONE_LENGTH, tz_arg, field_tz, env, pc, db>>

ResolveGet ==
    LET r == Read(field_tz, attr)
    IN  /\ last' = Op("get", None, env, r.exc, r.res)
        /\ hist' = [hist EXCEPT !.readEnv = env]
        /\ UNCHANGED <<default_tz, MAX_TIMEZONE_LENGTH, tz_arg, field_tz, env, attr, pc, db>>

ResolveEnv ==
    \E e \in EnvsOf(field_tz) :
        /\ e # env
        /\ env' = e
        /\ last' = Op("env", None, e, "none", None)
        /\ UNCHANGED <<default_tz, MAX_TIMEZONE_LENGTH, tz_arg, field_tz, attr, hist, pc, db>>

NextResolve == ResolveSet \/ ResolveGet \/ ResolveEnv

SpecResolve == InitResolve /\ [][NextResolve]_vars

\* C6 as stated: when the zone a Dynamic or Relational policy resolves to
\* has changed since the previous read of the field, the next read returns
\* the instant in the newly resolved zone.
C6_Original ==
    [][(/\ last'.op = "get"
        /\ last.op # "get"
        /\ ~IsStatic(tz_arg)
        /\ hist.readEnv # NoRead
        /\ ExpectedZone(tz_arg, hist.readEnv) # ExpectedZone(tz_arg, env)
        /\ last'.res.kind = "aware")
       => last'.res.zone = ExpectedZone(tz_arg, env)]_vars

\* C6 amended: the zone is resolved by each assignment, not by reads: a
\* read returns the value of the latest completed assignment, and when that
\* is a datetime it is in the zone the policy gave when that assignment
\* ran, whatever the policy gives at the time of the read.
C6_ResolvedAtAssignment ==
    (last.op = "get" /\ Installed(field_tz) /\ hist.setEnv # NoRead) =>
        /\ last.exc = "none"
        /\ last.res = attr
        /\ last.res.kind = "aware" =>
               last.res.zone = ExpectedZone(tz_arg, hist.setEnv)

C6_Witness ==
    /\ last.op = "get"
    /\ IsDynamic(tz_arg)
    /\ hist.setEnv # NoRead
    /\ hist.readEnv # NoRead
    /\ last.res.kind = "aware"
    /\ ExpectedZone(tz_arg, hist.setEnv) # ExpectedZone(tz_arg, env)
    /\ last.res.zone # ExpectedZone(tz_arg, env)

InitCache ==
    /\ default_tz \in all_timezones_set
    /\ MAX_TIMEZONE_LENGTH = DefaultMaxLength
    /\ tz_arg \in TimezoneArgs
    /\ field_tz = FieldInit(tz_arg)
    /\ env \in EnvsOf(field_tz)
    /\ attr = Unset
    /\ last = Op("init", None, NoTz, "none", None)
    /\ hist = [firstRead |-> Unset, prevRead |-> Unset, changed |-> FALSE]
    /\ pc = "-"
    /\ db = None

CacheSet ==
    \E dt \in FewValues :
        LET r == Assign(default_tz, field_tz, env, attr, dt)
        IN  /\ attr' = r.attr
            /\ last' = Op("set", None, env, r.exc, r.attr)
            /\ hist' = IF r.exc = "none"
                       THEN [hist EXCEPT !.prevRead = Unset, !.changed = FALSE]
                       ELSE hist
            /\ UNCHANGED <<default_tz, MAX_TIMEZONE_LENGTH, tz_arg, field_tz, env, pc, db>>

CacheGet ==
    LET r == Read(field_tz, attr)
    IN  /\ last' = Op("get", None, env, r.exc, r.res)
        /\ hist' = IF r.exc = "none"
                   THEN [hist EXCEPT
                            !.prevRead = r.res,
                            !.firstRead = IF @ = Unset THEN r.res ELSE @]
                   ELSE hist
        /\ UNCHANGED <<default_tz, MAX_TIMEZONE_LENGTH, tz_arg, field_tz, env, attr, pc, db>>

CacheEnv ==
    \E e \in EnvsOf(field_tz) :
        /\ e # env
        /\ env' = e
        /\ last' = Op("env", None, e, "none", None)
        /\ hist' = [hist EXCEPT !.changed = (@ \/ hist.prevRead # Unset)]
        /\ UNCHANGED <<default_tz, MAX_TIMEZONE_LENGTH, tz_arg, field_tz, attr, pc, db>>

NextCache == CacheSet \/ CacheGet \/ CacheEnv

SpecCache == InitCache /\ [][NextCache]_vars

\* C7 as stated: once the field has been read on an instance, every later
\* read on that instance succeeds and returns what the first read returned.
C7_Original ==
    (last.op = "get" /\ hist.firstRead # Unset) =>
        /\ last.exc = "none"
        /\ last.res = hist.firstRead

\* C7 amended: the value is computed by each assignment and kept until the
\* next one: a read after a completed assignment succeeds, and a read
\* returns what the previous read returned when no assignment completed
\* between the two.
C7_StableBetweenAssignments ==
    [][(last'.op = "get" /\ Installed(field_tz)) =>
            /\ (attr # Unset) => last'.exc = "none"
            /\ (hist.prevRead # Unset) => last'.res = hist.prevRead]_vars

C7_Witness ==
    /\ last.op = "get"
    /\ IsDynamic(tz_arg)
    /\ hist.changed
    /\ last.res.kind = "aware"
    /\ last.res = hist.prevRead
    /\ last.res.zone # ExpectedZone(tz_arg, env)
    /\ hist.firstRead # last.res

(* ---------------- TimeZoneField ---------------- *)

\* zones.ALL_TIMEZONE_CHOICES: the known identifiers
ALL_TIMEZONE_CHOICES == all_timezones_set

\* utils.validate_timezone_max_length: fails when some known identifier is
\* longer than max_length
validate_timezone_max_length(max_length, choices) ==
    IF \E n \in choices : Len(n) > max_length
    THEN "ConfigurationError"
    ELSE "none"

\* the max_length keyword is absent
NoKw == 0 - 1

\* __init__ without the validation
TimeZoneField_init_unchecked(setting, kw_max_length) ==
    [exc |-> "none",
     max_length |-> IF kw_max_length = NoKw THEN setting ELSE kw_max_length]

\* TimeZoneField.__init__: validates the setting, then lets the keyword
\* arguments override the defaults
TimeZoneField_init(setting, kw_max_length) ==
    LET e == validate_timezone_max_length(setting, ALL_TIMEZONE_CHOICES)
    IN  IF e # "none"
        THEN [exc |-> e, max_length |-> NoKw]
        ELSE [exc |-> "none",
              max_length |-> IF kw_max_length = NoKw THEN setting
                             ELSE kw_max_length]

\* smart_unicode(value): a string as it is, a zone object as its name
smart_unicode(value) ==
    IF value.kind = "zone" THEN Str(value.name) ELSE value

\* utils.coerce_timezone_value: the zone of a known name, other strings
\* unchanged
coerce_timezone_value(value) ==
    IF value.kind = "str" /\ value.name \in all_timezones_set
    THEN ZoneObj(value.name)
    ELSE value

\* CharField.to_python, then the coercion unless the value is None
to_python(value) ==
    LET v == IF value.kind \in {"str", "none"} THEN value
             ELSE smart_unicode(value)
    IN  IF v.kind = "none" THEN NoTz ELSE coerce_timezone_value(v)

\* get_prep_value without the conversion to a string
get_prep_value_as_is(value) == value

get_prep_value(value) ==
    IF value.kind # "none" THEN smart_unicode(value) ELSE value

tz_get_db_prep_save(value) == get_prep_value(value)

\* the values a TimeZoneField holds
ZoneValues ==
    {NoTz} \cup {Str(n) : n \in all_timezones_set \cup {UnknownName}}
        \cup {ZoneObj(n) : n \in all_timezones_set}

TzOp(o, v, k, x, r, m) ==
    [op |-> o, value |-> v, kw |-> k, exc |-> x, res |-> r, max_length |-> m]

InitTZ ==
    /\ default_tz \in all_timezones_set
    /\ MAX_TIMEZONE_LENGTH \in (0..MaxLenArg) \cup {DefaultMaxLength}
    /\ tz_arg = NoTz
    /\ field_tz = NoTz
    /\ env = NoTz
    /\ attr = None
    /\ last = TzOp("init", NoTz, NoKw, "none", NoTz, NoKw)
    /\ hist = Idle
    /\ pc = "-"
    /\ db = None

\* a model class defines a TimeZoneField, with or without max_length=...
DefineField ==
    \E kw \in {NoKw} \cup (0..MaxLenArg) :
        LET r == TimeZoneField_init(MAX_TIMEZONE_LENGTH, kw)
        IN  /\ last' = TzOp("define", NoTz, kw, r.exc, NoTz, r.max_length)
            /\ UNCHANGED <<default_tz, MAX_TIMEZONE_LENGTH, tz_arg, field_tz, env, attr, hist, pc, db>>

ToPython ==
    \E v \in ZoneValues :
        /\ last' = TzOp("to_python", v, NoKw, "none", to_python(v), NoKw)
        /\ UNCHANGED <<default_tz, MAX_TIMEZONE_LENGTH, tz_arg, field_tz, env, attr, hist, pc, db>>

GetPrepValue ==
    \E v \in ZoneValues :
        /\ last' = TzOp("get_prep_value", v, NoKw, "none", get_prep_value(v), NoKw)
        /\ UNCHANGED <<default_tz, MAX_TIMEZONE_LENGTH, tz_arg, field_tz, env, attr, hist, pc, db>>

GetDbPrepSave ==
    \E v \in ZoneValues :
        /\ last' = TzOp("get_db_prep_save", v, NoKw, "none", tz_get_db_prep_save(v), NoKw)
        /\ UNCHANGED <<default_tz, MAX_TIMEZONE_LENGTH, tz_arg, field_tz, env, attr, hist, pc, db>>

NextTZ == DefineField \/ ToPython \/ GetPrepValue \/ GetDbPrepSave

SpecTZ == InitTZ /\ [][NextTZ]_vars

\* the length of the longest known identifier
Longest == CHOOSE l \in 0..DefaultMaxLength :
    /\ \E n \in ALL_TIMEZONE_CHOICES : Len(n) = l
    /\ \A n \in ALL_TIMEZONE_CHOICES : Len(n) <= l

\* the max_length a definition will use
UsedLength(setting, kw) == IF kw = NoKw THEN setting ELSE kw

\* C9 as stated: the definition fails whenever the max_length the field
\* will use, from the setting or from the keyword, is below the longest
\* identifier, so a constructed field always has room for every identifier.
C9_Original ==
    last.op = "define" =>
        /\ UsedLength(MAX_TIMEZONE_LENGTH, last.kw) < Longest =>
               last.exc = "ConfigurationError"
        /\ last.exc = "none" => last.max_length >= Longest

\* C9 amended: the definition fails exactly when the MAX_TIMEZONE_LENGTH
\* setting is below the longest identifier; a max_length keyword is not
\* checked and is used as given, so only a field constructed without the
\* keyword is sure to have room for every identifier.
C9_SettingIsValidated ==
    last.op = "define" =>
        /\ (last.exc = "ConfigurationError") <=> (MAX_TIMEZONE_LENGTH < Longest)
        /\ last.exc \in {"none", "ConfigurationError"}
        /\ last.exc = "none" =>
               last.max_length = UsedLength(MAX_TIMEZONE_LENGTH, last.kw)
        /\ (last.exc = "none" /\ last.kw = NoKw) => last.max_length >= Longest

C9_Witness ==
    /\ last.op = "define"
    /\ MAX_TIMEZONE_LENGTH = DefaultMaxLength
    /\ last.kw = 5
    /\ last.exc = "none"
    /\ last.max_length < Len("America/New_York")

\* C10: get_prep_value and get_db_prep_save give None for None and the
\* identifier string for a name or a zone object, never the zone object;
\* to_python of None is None.
C10_PreparedAsString ==
    /\ last.op \in {"get_prep_value", "get_db_prep_save"} =>
        /\ last.value.kind = "none" => last.res = NoTz
        /\ last.value.kind # "none" => last.res = Str(last.value.name)
        /\ last.res.kind # "zone"
    /\ (last.op = "to_python" /\ last.value.kind = "none") => last.res = NoTz

C10_Witness ==
    /\ last.op = "get_db_prep_save"
    /\ last.value = ZoneObj("Asia/Tokyo")
    /\ last.res = Str("Asia/Tokyo")

====
